---- MODULE Spec2Model ----
(***************************************************************************)
(* QuickBooks node (packages/nodes-base/nodes/QuickBooks/QuickBooks.node.ts)*)
(* The model follows QuickBooks.execute: the per-item loop, the            *)
(* (resource, operation) branches, the requests each branch issues and the *)
(* records it appends to returnData.  One action is one stretch of execute *)
(* that runs without interruption: from the start of a branch (or from the *)
(* resumption after an awaited call) up to the completion of the next      *)
(* awaited call, the synchronous code that follows it included.            *)
(***************************************************************************)
EXTENDS Integers, Sequences, FiniteSets

\* ------------------------------------------------------------------ bounds
MaxItems == 2       \* items.length ranges over 1..MaxItems
MaxLines == 1       \* the Line parameter holds 0..MaxLines lines
MaxListing == 2     \* a listing holds 0..MaxListing records
MaxToken == 2       \* the SyncTokens a read can return are 1..MaxToken

\* --------------------------------------------------------- the enumerations
Resources == {"bill", "customer", "employee", "estimate", "invoice", "item",
              "payment", "vendor"}

Operations == {"create", "get", "getAll", "update", "delete", "send", "void"}

\* The field of the entity that getRefAndSyncToken is asked to extract.
RefKey(res) == IF res = "bill" THEN "VendorRef" ELSE "CustomerRef"

\* The branch of execute that a (resource, operation) pair selects:
\* the if / else-if chain on resource and, inside it, on operation.
HandlerKindSendEverywhere(res, op) ==
    CASE op = "create" /\ res \in {"bill", "estimate", "invoice"} -> "createLines"
      [] op = "create" /\ res \in {"customer", "employee", "payment", "vendor"} -> "create"
      [] op = "get" /\ res \in {"bill", "customer", "employee", "item", "vendor"} -> "get"
      [] op = "get" /\ res \in {"estimate", "invoice", "payment"} -> "getOrDownload"
      [] op = "getAll" -> "getAll"
      [] op = "update" /\ res \in {"bill", "estimate", "invoice", "payment"} -> "updateRef"
      [] op = "update" /\ res \in {"customer", "employee", "vendor"} -> "update"
      [] op = "delete" /\ res \in {"invoice", "payment"} -> "delete"
      [] op = "send" -> "send"
      [] op = "void" /\ res \in {"invoice", "payment"} -> "void"
      [] OTHER -> "none"

HandlerKind(res, op) ==
    CASE op = "create" /\ res \in {"bill", "estimate", "invoice"} -> "createLines"
      [] op = "create" /\ res \in {"customer", "employee", "payment", "vendor"} -> "create"
      [] op = "get" /\ res \in {"bill", "customer", "employee", "item", "vendor"} -> "get"
      [] op = "get" /\ res \in {"estimate", "invoice", "payment"} -> "getOrDownload"
      [] op = "getAll" -> "getAll"
      [] op = "update" /\ res \in {"bill", "estimate", "invoice", "payment"} -> "updateRef"
      [] op = "update" /\ res \in {"customer", "employee", "vendor"} -> "update"
      [] op = "delete" /\ res \in {"invoice", "payment"} -> "delete"
      [] op = "send" /\ res \in {"invoice", "payment"} -> "send"
      [] op = "void" /\ res \in {"invoice", "payment"} -> "void"
      [] OTHER -> "none"

\* ------------------------------------------------------------------ values
\* The value of the id parameter (billId, customerId, ...) resolved at index
\* idx is denoted by idx itself.
IdParam(idx) == idx

Tokens == 1..MaxToken

Refs == {[name |-> "Acme", value |-> 1], [name |-> "Bolt", value |-> 2]}

NoRef == [name |-> "none", value |-> 0]

\* What a read of the current entity yields: its SyncToken and its reference.
Snapshots == [SyncToken : Tokens, Ref : Refs]

NoSnapshot == [SyncToken |-> 0, Ref |-> NoRef]

\* Records of the output.  A JSON record is named by the item whose request
\* returned it and by its position in that response; undefined is the value
\* of a responseData that was never assigned or was unwrapped from an
\* envelope lacking the resource key.
Rec(idx, k) == [kind |-> "json", item |-> idx, n |-> k]

Undefined == [kind |-> "undefined", item |-> 0 - 1, n |-> 0]

BinaryRec(idx) == [kind |-> "binary", item |-> idx, n |-> 0]

\* responseData as declared before the loop: a single value or an array.
Single(rec) == [array |-> FALSE, val |-> <<rec>>]

Listing(idx, len) == [array |-> TRUE, val |-> [k \in 1..len |-> Rec(idx, k)]]

\* --------------------------------------------------------------- line items
DetailTypes == {"AccountBasedExpenseLineDetail", "ItemBasedExpenseLineDetail",
                "SalesItemLineDetail"}

Lines == [DetailType : DetailTypes \cup {"undefined"},
          Amount : {"100", "undefined"},
          Description : {"office", "undefined"},
          accountId : {"42", "undefined"},
          itemId : {"7", "undefined"}]

LineSeqs == UNION {[1..len -> Lines] : len \in 0..MaxLines}

\* lines.some(line => line.DetailType === undefined || ...)
MissingBasics(line) ==
    \/ line.DetailType = "undefined"
    \/ line.Amount = "undefined"
    \/ line.Description = "undefined"

\* The body of the lines.forEach callback: the reference a detail type needs.
MissingRefOmitted(res, line) == FALSE

MissingRef(res, line) ==
    IF res = "bill"
    THEN \/ line.DetailType = "AccountBasedExpenseLineDetail" /\ line.accountId = "undefined"
         \/ line.DetailType = "ItemBasedExpenseLineDetail" /\ line.itemId = "undefined"
    ELSE line.DetailType = "SalesItemLineDetail" /\ line.itemId = "undefined"

\* The three checks that open bill, estimate and invoice create, in order:
\* TRUE when one of them throws.
LinesRejectedBeforeForEach(res, lines) ==
    \/ Len(lines) = 0
    \/ \E k \in 1..Len(lines) : MissingBasics(lines[k])

LinesRejected(res, lines) ==
    \/ Len(lines) = 0
    \/ \E k \in 1..Len(lines) : MissingBasics(lines[k])
    \/ \E k \in 1..Len(lines) : MissingRef(res, lines[k])

\* ------------------------------------------------------------------- state
VARIABLES
    n,              \* items.length
    resource,       \* getNodeParameter('resource', 0)
    operation,      \* getNodeParameter('operation', 0)
    i,              \* the loop index
    pc,             \* where execute stands
    itemTags,       \* the resource and operation parameters as they resolve at index i
    branch,         \* the branch of the if / else-if chain taken for item i
    params,         \* the parameters read at index i so far
    read,           \* what getSyncToken / getRefAndSyncToken returned for item i
    requests,       \* the outbound requests issued so far, in order
    responseData,
    returnData,
    error,          \* the error execute threw
    result          \* the records the caller receives

vars == <<n, resource, operation, i, pc, itemTags, branch, params, read, requests,
          responseData, returnData, error, result>>

NoTags == [resource |-> "none", operation |-> "none"]

NoParams == [names |-> {}, Line |-> <<>>, updateFields |-> "unread", download |-> FALSE]

\* ---------------------------------------------------------------- requests
EmptyBody == [Id |-> 0 - 1, SyncToken |-> 0, sparse |-> FALSE, refKey |-> "none",
              Ref |-> NoRef, Line |-> FALSE, fields |-> "none"]

EmptyQs == [operation |-> "none", Id |-> 0 - 1, SyncToken |-> 0, sendTo |-> FALSE]

\* populateFields(body, fields, resource): the body with the caller's
\* additional or update fields merged in; the identity fields stay.
populateFields(body, which) == [body EXCEPT !.fields = which]

\* The body of a create request before populateFields.
CreateBody(res) ==
    [EmptyBody EXCEPT !.Line = (res \in {"bill", "estimate", "invoice"})]

\* The body literal of an update branch: Id, SyncToken, sparse and, for the
\* resources resolved with getRefAndSyncToken, the reference of that read.
UpdateBodyNotSparse(res, idx, snap) ==
    IF HandlerKind(res, "update") = "updateRef"
    THEN [EmptyBody EXCEPT !.Id = IdParam(idx), !.SyncToken = snap.SyncToken,
                           !.refKey = RefKey(res), !.Ref = snap.Ref]
    ELSE [EmptyBody EXCEPT !.Id = IdParam(idx), !.SyncToken = snap.SyncToken]

UpdateBody(res, idx, snap) ==
    IF HandlerKind(res, "update") = "updateRef"
    THEN [EmptyBody EXCEPT !.Id = IdParam(idx), !.SyncToken = snap.SyncToken,
                           !.sparse = TRUE,
                           !.refKey = RefKey(res), !.Ref = snap.Ref]
    ELSE [EmptyBody EXCEPT !.Id = IdParam(idx), !.SyncToken = snap.SyncToken,
                           !.sparse = TRUE]

\* The body literal of a delete branch.
DeleteBodyCached(idx, tok) ==
    [EmptyBody EXCEPT !.Id = IdParam(idx), !.SyncToken = requests[1].resp.SyncToken]

DeleteBody(idx, tok) == [EmptyBody EXCEPT !.Id = IdParam(idx), !.SyncToken = tok]

\* The query string literal of a void branch.
VoidQs(idx, tok) ==
    [EmptyQs EXCEPT !.Id = IdParam(idx), !.SyncToken = tok, !.operation = "void"]

\* One call of quickBooksApiRequest (or of a helper that makes it) and what it
\* resolved to: resp for a read of the current entity, data for a response
\* that becomes responseData.
NoData == [array |-> FALSE, val |-> <<>>]

Request(idx, method, path, res, qs, body, resp, data) ==
    [item |-> idx, method |-> method, path |-> path, resource |-> res,
     qs |-> qs, body |-> body, resp |-> resp, data |-> data]

\* Array.isArray(responseData) ? returnData.push(...responseData)
\*                             : returnData.push(responseData)
PushFront(rd, data) ==
    IF data.array THEN data.val \o rd ELSE <<data.val[1]>> \o rd

Push(rd, data) ==
    IF data.array THEN rd \o data.val ELSE Append(rd, data.val[1])

Init ==
    /\ n \in 1..MaxItems
    /\ resource = "none"
    /\ operation = "none"
    /\ i = 0
    /\ pc = "start"
    /\ itemTags = NoTags
    /\ branch = "none"
    /\ params = NoParams
    /\ read = NoSnapshot
    /\ requests = <<>>
    /\ responseData = Single(Undefined)
    /\ returnData = <<>>
    /\ error = "none"
    /\ result = <<>>


\* ------------------------------------------------------- leaving the branch
\* throw new Error(...), or an awaited call that rejects: execute ends with
\* the error and the caller receives no records.
ThrowReturnsPartial(e) ==
    /\ pc' = "failed"
    /\ error' = e
    /\ result' = returnData
    /\ UNCHANGED <<i, responseData, returnData>>

ThrowAndContinue(e) ==
    /\ pc' = "loop"
    /\ i' = i + 1
    /\ error' = e
    /\ UNCHANGED <<responseData, returnData, result>>

Throw(e) ==
    /\ pc' = "failed"
    /\ error' = e
    /\ result' = <<>>
    /\ UNCHANGED <<i, responseData, returnData>>

\* The assignment to responseData that ends a branch, the push that follows
\* the if / else-if chain, and i++.
Complete(data) ==
    /\ responseData' = data
    /\ returnData' = Push(returnData, data)
    /\ i' = i + 1
    /\ pc' = "loop"
    /\ UNCHANGED <<error, result>>

\* return await handleBinaryData.call(this, items, i, ...): execute returns
\* what the binary handler returns.
ReturnWithAccumulated(out) ==
    /\ pc' = "returned"
    /\ result' = returnData \o out
    /\ UNCHANGED <<i, responseData, returnData, error>>

ReturnAndContinue(out) ==
    /\ pc' = "loop"
    /\ i' = i + 1
    /\ result' = out
    /\ UNCHANGED <<responseData, returnData, error>>

Return(out) ==
    /\ pc' = "returned"
    /\ result' = out
    /\ UNCHANGED <<i, responseData, returnData, error>>

\* responseData[capitalCase(resource)] of a response that arrived: the entity,
\* or undefined when the envelope does not hold the key.
EntityResponses(idx) == {Single(Rec(idx, 0)), Single(Undefined)}

\* What handleListing resolves to: the listing, as one array.
ListingResponses(idx) == {Listing(idx, len) : len \in 0..MaxListing}

\* ----------------------------------------------------------------- actions
\* The head of execute: resource and operation are read at index 0.
Begin ==
    /\ pc = "start"
    /\ \E res \in Resources, op \in Operations :
          /\ resource' = res
          /\ operation' = op
    /\ pc' = "loop"
    /\ UNCHANGED <<n, i, itemTags, branch, params, read, requests, responseData,
                   returnData, error, result>>

\* for (...; i < items.length; ...): the loop is entered for item i.  The
\* tags that resolve at index 0 are the ones Begin read.
StartItem ==
    /\ pc = "loop"
    /\ i < n
    /\ pc' = "dispatch"
    /\ \E res \in Resources, op \in Operations :
          /\ i = 0 => res = resource /\ op = operation
          /\ itemTags' = [resource |-> res, operation |-> op]
    /\ params' = NoParams
    /\ read' = NoSnapshot
    /\ UNCHANGED <<n, resource, operation, i, branch, requests, responseData,
                   returnData, error, result>>

\* if (resource === 'bill') { if (operation === 'create') ... : the chain is
\* evaluated on resource and operation and selects the branch for item i.
Dispatch ==
    /\ pc = "dispatch"
    /\ branch' = HandlerKind(resource, operation)
    /\ pc' = "handler"
    /\ itemTags' = NoTags
    /\ UNCHANGED <<n, resource, operation, i, params, read, requests,
                   responseData, returnData, error, result>>

\* responseData = await quickBooksApiRequest.call(this, method, endpoint, qs,
\* body) (or await handleListing), the unwrapping of the envelope and the end
\* of the iteration: the call rejects, or resolves to one of outcomes.
Exchange(method, path, qs, body, outcomes) ==
    \/ /\ requests' = Append(requests,
              Request(i, method, path, resource, qs, body, NoSnapshot, NoData))
       /\ Throw("upstream")
    \/ \E data \in outcomes :
          /\ requests' = Append(requests,
                 Request(i, method, path, resource, qs, body, NoSnapshot, data))
          /\ Complete(data)

\* bill, estimate, invoice: create.
CreateLines ==
    /\ pc = "handler"
    /\ branch = "createLines"
    /\ \E lines \in LineSeqs :
          /\ params' = [params EXCEPT !.names = @ \cup {"Line"}, !.Line = lines]
          /\ IF LinesRejected(resource, lines)
             THEN /\ Throw("validation")
                  /\ UNCHANGED requests
             ELSE Exchange("POST", "resource", EmptyQs,
                           populateFields(CreateBody(resource), "additional"),
                           EntityResponses(i))
    /\ UNCHANGED <<n, resource, operation, itemTags, branch, read>>

\* customer, employee, payment, vendor: create.
Create ==
    /\ pc = "handler"
    /\ branch = "create"
    /\ Exchange("POST", "resource", EmptyQs,
                populateFields(CreateBody(resource), "additional"),
                EntityResponses(i))
    /\ UNCHANGED <<n, resource, operation, itemTags, branch, params, read>>

\* bill, customer, employee, item, vendor: get.
Get ==
    /\ pc = "handler"
    /\ branch = "get"
    /\ Exchange("GET", "byId", EmptyQs, EmptyBody, EntityResponses(i))
    /\ UNCHANGED <<n, resource, operation, itemTags, branch, params, read>>

\* estimate, invoice, payment: get with download false.
GetJson ==
    /\ pc = "handler"
    /\ branch = "getOrDownload"
    /\ params' = [params EXCEPT !.names = @ \cup {"download"}, !.download = FALSE]
    /\ Exchange("GET", "byId", EmptyQs, EmptyBody, EntityResponses(i))
    /\ UNCHANGED <<n, resource, operation, itemTags, branch, read>>

\* estimate, invoice, payment: get with download true:
\* return await handleBinaryData.call(this, items, i, companyId, resource, id).
Download ==
    /\ pc = "handler"
    /\ branch = "getOrDownload"
    /\ params' = [params EXCEPT !.names = @ \cup {"download"}, !.download = TRUE]
    /\ requests' = Append(requests,
           Request(i, "GET", "pdf", resource, EmptyQs, EmptyBody, NoSnapshot, NoData))
    /\ \/ Throw("upstream")
       \/ Return(<<BinaryRec(i)>>)
    /\ UNCHANGED <<n, resource, operation, itemTags, branch, read>>

\* every resource: getAll.
GetAll ==
    /\ pc = "handler"
    /\ branch = "getAll"
    /\ Exchange("GET", "query", EmptyQs, EmptyBody, ListingResponses(i))
    /\ UNCHANGED <<n, resource, operation, itemTags, branch, params, read>>

\* invoice, payment: send.
Send ==
    /\ pc = "handler"
    /\ branch = "send"
    /\ Exchange("POST", "send", [EmptyQs EXCEPT !.sendTo = TRUE], EmptyBody,
                EntityResponses(i))
    /\ UNCHANGED <<n, resource, operation, itemTags, branch, params, read>>

\* update, delete, void: await getSyncToken / getRefAndSyncToken, the read of
\* the current entity that opens the branch.
ResolveToken ==
    /\ pc = "handler"
    /\ branch \in {"update", "updateRef", "delete", "void"}
    /\ \/ /\ requests' = Append(requests,
                 Request(i, "GET", "byId", resource, EmptyQs, EmptyBody,
                         NoSnapshot, NoData))
          /\ Throw("upstream")
          /\ UNCHANGED read
       \/ \E snap \in Snapshots :
             /\ requests' = Append(requests,
                    Request(i, "GET", "byId", resource, EmptyQs, EmptyBody,
                            snap, NoData))
             /\ read' = IF branch = "updateRef"
                        THEN snap ELSE [snap EXCEPT !.Ref = NoRef]
             /\ pc' = "token"
             /\ UNCHANGED <<i, responseData, returnData, error, result>>
    /\ UNCHANGED <<n, resource, operation, itemTags, branch, params>>

\* update, from the body literal on: the updateFields check, populateFields
\* and the POST.
UpdateWithoutCheck ==
    /\ pc = "token"
    /\ branch \in {"update", "updateRef"}
    /\ \E given \in {"empty", "filled"} :
          params' = [params EXCEPT !.names = @ \cup {"updateFields"},
                                   !.updateFields = given]
    /\ Exchange("POST", "resource", EmptyQs,
                populateFields(UpdateBody(resource, i, read), "update"),
                EntityResponses(i))
    /\ UNCHANGED <<n, resource, operation, itemTags, branch, read>>

Update ==
    /\ pc = "token"
    /\ branch \in {"update", "updateRef"}
    /\ \/ /\ params' = [params EXCEPT !.names = @ \cup {"updateFields"},
                                      !.updateFields = "empty"]
          /\ Throw("validation")
          /\ UNCHANGED requests
       \/ /\ params' = [params EXCEPT !.names = @ \cup {"updateFields"},
                                      !.updateFields = "filled"]
          /\ Exchange("POST", "resource", EmptyQs,
                      populateFields(UpdateBody(resource, i, read), "update"),
                      EntityResponses(i))
    /\ UNCHANGED <<n, resource, operation, itemTags, branch, read>>

\* invoice, payment: delete, from the body literal on.
Delete ==
    /\ pc = "token"
    /\ branch = "delete"
    /\ Exchange("POST", "resource", [EmptyQs EXCEPT !.operation = "delete"],
                DeleteBody(i, read.SyncToken), EntityResponses(i))
    /\ UNCHANGED <<n, resource, operation, itemTags, branch, params, read>>

\* invoice, payment: void, from the query string literal on.
Void ==
    /\ pc = "token"
    /\ branch = "void"
    /\ Exchange("POST", "resource", VoidQs(i, read.SyncToken), EmptyBody,
                EntityResponses(i))
    /\ UNCHANGED <<n, resource, operation, itemTags, branch, params, read>>

\* No branch matches: nothing is assigned to responseData, and the push that
\* follows the chain runs.
NoHandler ==
    /\ pc = "handler"
    /\ branch = "none"
    /\ Complete(responseData)
    /\ UNCHANGED <<n, resource, operation, itemTags, branch, params, read, requests>>

\* return [this.helpers.returnJsonArray(returnData)]
Finish ==
    /\ pc = "loop"
    /\ i = n
    /\ pc' = "done"
    /\ result' = returnData
    /\ UNCHANGED <<n, resource, operation, i, itemTags, branch, params, read,
                   requests, responseData, returnData, error>>

Next ==
    \/ Begin
    \/ StartItem
    \/ Dispatch
    \/ CreateLines
    \/ Create
    \/ Get
    \/ GetJson
    \/ Download
    \/ GetAll
    \/ Send
    \/ ResolveToken
    \/ Update
    \/ Delete
    \/ Void
    \/ NoHandler
    \/ Finish

Spec == Init /\ [][Next]_vars

\* ================================================================ properties
\* A read of the current entity that resolved.
IsRead(r) == r.method = "GET" /\ r.path = "byId" /\ r.resp # NoSnapshot

\* The request of an update, delete or void branch that changes the entity.
IsTokenMutation(r) ==
    /\ r.method = "POST"
    /\ r.path = "resource"
    /\ r.body.fields = "update" \/ r.qs.operation \in {"delete", "void"}

SentToken(r) == IF r.qs.operation = "void" THEN r.qs.SyncToken ELSE r.body.SyncToken

RequestsOf(idx) == {k \in 1..Len(requests) : requests[k].item = idx}

\* C1: an update item whose updateFields mapping is empty fails with a
\* validation error before any outbound request has been issued for that item.
C1_EmptyUpdateFailsBeforeAnyCall ==
    params.updateFields = "empty" =>
        /\ pc = "failed"
        /\ error = "validation"
        /\ RequestsOf(i) = {}

\* C2: every update, delete and void request is immediately preceded by a
\* resolved read of the same item, and carries the SyncToken of that read;
\* and a branch that waits to mutate has just read the entity of its own item.
C2_TokenFromOwnRead ==
    /\ \A k \in 1..Len(requests) :
          IsTokenMutation(requests[k]) =>
              /\ k > 1
              /\ IsRead(requests[k - 1])
              /\ requests[k - 1].item = requests[k].item
              /\ requests[k - 1].resource = requests[k].resource
              /\ SentToken(requests[k]) = requests[k - 1].resp.SyncToken
    /\ pc = "token" =>
          /\ Len(requests) > 0
          /\ IsRead(requests[Len(requests)])
          /\ requests[Len(requests)].item = i
          /\ read.SyncToken = requests[Len(requests)].resp.SyncToken

\* C2 witness: the second item mutates with a token that differs from the
\* one the first item's read returned.
C2_Witness ==
    \E k \in 1..Len(requests) :
        /\ IsTokenMutation(requests[k])
        /\ requests[k].item = 1
        /\ requests[k].qs.operation = "delete"
        /\ IsRead(requests[1])
        /\ SentToken(requests[k]) # requests[1].resp.SyncToken

\* C3: once an item has raised an error the run has ended with it: no request
\* exists for a later item and the caller receives no record.
C3_FailureAbortsRun ==
    error # "none" =>
        /\ pc = "failed"
        /\ error \in {"validation", "upstream"}
        /\ result = <<>>
        /\ \A k \in 1..Len(requests) : requests[k].item <= i

\* C3 witness: the second item fails after the first one produced a record,
\* with a further item still waiting.
C3_Witness ==
    /\ pc = "failed"
    /\ i = 1
    /\ Len(returnData) > 0
    /\ RequestsOf(0) # {}

\* C4: with a (resource, operation) pair that selects no branch, processing
\* raises no error and the output sequence is not extended.
C4_UnwiredAddsNothing ==
    HandlerKind(resource, operation) = "none" /\ pc # "start" =>
        /\ error = "none"
        /\ returnData = <<>>
        /\ result = <<>>

\* C5: a download request is the last request of the run and the only one of
\* its item; when it resolves, the run returns the binary result of that item
\* with no later item processed.
C5_DownloadReturnsAtOnce ==
    \A k \in 1..Len(requests) :
        requests[k].path = "pdf" =>
            /\ k = Len(requests)
            /\ RequestsOf(requests[k].item) = {k}
            /\ i = requests[k].item
            /\ pc \in {"returned", "failed"}
            /\ pc = "returned" => result = <<BinaryRec(i)>>

\* C5 witness: a download returned while a later item was still waiting.
C5_Witness ==
    /\ pc = "returned"
    /\ i + 1 < n
    /\ params.download

RECURSIVE Flatten(_)
\* The records the responses of reqs hold, in the order of reqs.
Flatten(reqs) ==
    IF reqs = <<>> THEN <<>>
    ELSE Flatten(SubSeq(reqs, 1, Len(reqs) - 1)) \o reqs[Len(reqs)].data.val

\* C6: when the run ends with every item processed by a branch, the output
\* is the concatenation, in item order, of what each item's response held:
\* one record for a single entity, the listing's records in order for getAll.
C6_OutputIsOrderedConcatenation ==
    pc = "done" /\ HandlerKind(resource, operation) # "none" =>
        /\ result = Flatten(requests)
        /\ \A j \in 0..(n - 1) :
              Cardinality({k \in RequestsOf(j) : requests[k].data # NoData}) = 1
        /\ \A k \in 1..Len(requests) :
              requests[k].data # NoData /\ ~requests[k].data.array =>
                  Len(requests[k].data.val) = 1
        /\ \A a, b \in 1..Len(result) :
              a < b /\ result[a].kind = "json" /\ result[b].kind = "json" =>
                  \/ result[a].item < result[b].item
                  \/ result[a].item = result[b].item /\ result[a].n < result[b].n

\* C6 witness: a getAll run whose two items both contributed records.
C6_Witness ==
    /\ pc = "done"
    /\ operation = "getAll"
    /\ Len(result) >= 3
    /\ \E a, b \in 1..Len(result) : result[a].item = 0 /\ result[b].item = 1

AccountLineNoId(line) ==
    line.DetailType = "AccountBasedExpenseLineDetail" /\ line.accountId = "undefined"

HasAccountLineNoId ==
    /\ "Line" \in params.names
    /\ \E k \in 1..Len(params.Line) : AccountLineNoId(params.Line[k])

\* C7 as stated: in bill, estimate and invoice create alike, a line of detail
\* type AccountBasedExpenseLineDetail without an account id fails with a
\* validation error.
C7_AccountLineRejectedAlike ==
    HasAccountLineNoId => pc = "failed" /\ error = "validation"

\* C7 as amended: in bill create such a line fails with a validation error;
\* in estimate and invoice create a line sequence is not rejected for it:
\* a non-empty sequence whose lines all have detail type, amount and
\* description and, where SalesItemLineDetail, an item id, passes validation.
C7_AccountLineRejectedForBill ==
    /\ resource = "bill" /\ HasAccountLineNoId =>
          pc = "failed" /\ error = "validation"
    /\ /\ resource \in {"estimate", "invoice"}
       /\ HasAccountLineNoId
       /\ \A k \in 1..Len(params.Line) :
             /\ ~MissingBasics(params.Line[k])
             /\ params.Line[k].DetailType = "SalesItemLineDetail" =>
                   params.Line[k].itemId # "undefined"
       => error # "validation" /\ RequestsOf(IF pc = "failed" THEN i ELSE i - 1) # {}

\* C7 witness: the second item of a bill run is rejected for a line that
\* lacks nothing but its account id, after the first item's request went out.
C7_Witness ==
    /\ resource = "bill"
    /\ pc = "failed"
    /\ i = 1
    /\ RequestsOf(0) # {}
    /\ "Line" \in params.names
    /\ \E k \in 1..Len(params.Line) :
          /\ ~MissingBasics(params.Line[k])
          /\ AccountLineNoId(params.Line[k])
          /\ params.Line[k].itemId # "undefined"

\* The line sequences C8 names, stated on the parameter itself.
BadLines(res, lines) ==
    \/ lines = <<>>
    \/ \E k \in 1..Len(lines) :
          \/ lines[k].DetailType = "undefined"
          \/ lines[k].Amount = "undefined"
          \/ lines[k].Description = "undefined"
          \/ /\ res = "bill"
             /\ lines[k].DetailType = "AccountBasedExpenseLineDetail"
             /\ lines[k].accountId = "undefined"
          \/ /\ res = "bill"
             /\ lines[k].DetailType = "ItemBasedExpenseLineDetail"
             /\ lines[k].itemId = "undefined"
          \/ /\ res \in {"estimate", "invoice"}
             /\ lines[k].DetailType = "SalesItemLineDetail"
             /\ lines[k].itemId = "undefined"

\* C8: in bill, estimate and invoice create, an empty line sequence, a line
\* missing detail type, amount or description, or a line missing the
\* reference its detail type requires fails with a validation error before
\* any request is issued for that item.
C8_BadLinesFailBeforeRequest ==
    "Line" \in params.names /\ BadLines(resource, params.Line) =>
        /\ pc = "failed"
        /\ error = "validation"
        /\ RequestsOf(i) = {}

\* C8 witness: the second item of an invoice run is rejected for a line that
\* lacks nothing but its item id, after the first item's request went out.
C8_Witness ==
    /\ resource = "invoice"
    /\ pc = "failed"
    /\ error = "validation"
    /\ i = 1
    /\ RequestsOf(0) # {}
    /\ \E k \in 1..Len(params.Line) :
          /\ params.Line[k].DetailType = "SalesItemLineDetail"
          /\ params.Line[k].itemId = "undefined"
          /\ ~MissingBasics(params.Line[k])

\* C9: the chain is evaluated, for item i, on the resource and operation
\* tags that resolve at index i.
C9_RoutedByOwnTags ==
    pc = "dispatch" =>
        /\ resource = itemTags.resource
        /\ operation = itemTags.operation

\* C10: every update request carries the entity Id, the SyncToken and
\* sparse = true; for bill it carries VendorRef and for estimate, invoice and
\* payment CustomerRef, name and value both taken from the read that
\* supplied the SyncToken.
C10_UpdateRequestBody ==
    \A k \in 1..Len(requests) :
        requests[k].body.fields = "update" =>
            /\ k > 1
            /\ IsRead(requests[k - 1])
            /\ requests[k - 1].item = requests[k].item
            /\ requests[k].body.Id = IdParam(requests[k].item)
            /\ requests[k].body.SyncToken = requests[k - 1].resp.SyncToken
            /\ requests[k].body.sparse = TRUE
            /\ requests[k].resource = "bill" =>
                  /\ requests[k].body.refKey = "VendorRef"
                  /\ requests[k].body.Ref.name = requests[k - 1].resp.Ref.name
                  /\ requests[k].body.Ref.value = requests[k - 1].resp.Ref.value
            /\ requests[k].resource \in {"estimate", "invoice", "payment"} =>
                  /\ requests[k].body.refKey = "CustomerRef"
                  /\ requests[k].body.Ref.name = requests[k - 1].resp.Ref.name
                  /\ requests[k].body.Ref.value = requests[k - 1].resp.Ref.value

\* C10 witness: the second item of an invoice run is updated with a
\* reference and a token that differ from those the first item's read held.
C10_Witness ==
    \E k \in 1..Len(requests) :
        /\ requests[k].body.fields = "update"
        /\ requests[k].resource = "invoice"
        /\ requests[k].item = 1
        /\ requests[k].body.Ref # requests[1].resp.Ref
        /\ requests[k].body.SyncToken # requests[1].resp.SyncToken

\* C11: a single-entity request whose response arrived with an envelope
\* lacking the resource key ends the run with an error, and no output record
\* is produced for that item.
C11_MalformedEnvelopeRaises ==
    \A k \in 1..Len(requests) :
        requests[k].data = Single(Undefined) =>
            /\ pc = "failed"
            /\ error = "upstream"
            /\ i = requests[k].item
            /\ Len(returnData) <= requests[k].item

\* The operations the branches of each resource cover, as C12 names them.
WiredOperations(res) ==
    CASE res \in {"bill", "estimate"} -> {"create", "get", "getAll", "update"}
      [] res \in {"customer", "employee", "vendor"} -> {"create", "get", "getAll", "update"}
      [] res = "item" -> {"get", "getAll"}
      [] res \in {"invoice", "payment"} -> Operations

\* C12: a request is issued only for a wired (resource, operation) pair: for
\* item only get and getAll, for vendor never delete, send or void, and send
\* only for invoice and payment.
C12_RequestsOnlyForWiredPairs ==
    requests # <<>> =>
        /\ operation \in WiredOperations(resource)
        /\ \A k \in 1..Len(requests) : requests[k].resource = resource
        /\ resource = "item" => operation \in {"get", "getAll"}
        /\ resource = "vendor" => operation \notin {"delete", "send", "void"}
        /\ operation = "send" => resource \in {"invoice", "payment"}
        /\ \A k \in 1..Len(requests) :
              requests[k].path = "send" => requests[k].resource \in {"invoice", "payment"}

\* C12 witness: a run of two items on an unwired pair (item create, vendor
\* delete, send or void, or estimate send) ended without a single request.
C12_Witness ==
    /\ pc = "done"
    /\ n = 2
    /\ requests = <<>>
    /\ \/ resource = "item" /\ operation = "create"
       \/ resource = "vendor" /\ operation \in {"delete", "send", "void"}
       \/ resource = "estimate" /\ operation = "send"

\* C13: an update item whose updateFields mapping is empty ends the run with
\* the validation error, and no POST was issued for it: the only request of
\* that item is the read of the current entity.
C13_EmptyUpdateNeverMutates ==
    params.updateFields = "empty" =>
        /\ pc = "failed"
        /\ error = "validation"
        /\ \A k \in RequestsOf(i) :
              /\ requests[k].method = "GET"
              /\ ~IsTokenMutation(requests[k])

\* C13 witness: the second item of an update run has empty updateFields,
\* after its own read and after the first item's update went out.
C13_Witness ==
    /\ params.updateFields = "empty"
    /\ i = 1
    /\ RequestsOf(1) # {}
    /\ \E k \in RequestsOf(0) : IsTokenMutation(requests[k])

\* The branches whose last request changes the remote state.
MutationBranches ==
    {"createLines", "create", "update", "updateRef", "delete", "void", "send"}

\* C14: when item i fails in a run of a mutating operation, each of the items
\* 0..i-1 has had its one mutation request issued and answered, before any
\* request of item i, and nothing was issued for them since; the caller
\* receives no record for any of them.
C14_FailureLeavesEarlierMutations ==
    pc = "failed" /\ branch \in MutationBranches =>
        /\ result = <<>>
        /\ Len(returnData) = i
        /\ \A j \in 0..(i - 1) :
              /\ \E k \in RequestsOf(j) :
                    /\ requests[k].method = "POST"
                    /\ requests[k].data # NoData
                    /\ \A m \in RequestsOf(i) : k < m
              /\ Cardinality({k \in RequestsOf(j) : requests[k].method = "POST"}) = 1

\* C14 witness: the second item fails after the first item's mutation was
\* answered with the entity, which the caller never receives.
C14_Witness ==
    /\ pc = "failed"
    /\ branch \in MutationBranches
    /\ i = 1
    /\ returnData = <<Rec(0, 0)>>
    /\ result = <<>>
    /\ \E k \in RequestsOf(0) :
          requests[k].method = "POST" /\ requests[k].data = Single(Rec(0, 0))

\* C15: when a download returns for item i after items 0..i-1 were fetched
\* as JSON, the GET of each earlier item was issued and answered and its
\* record accumulated in returnData, yet the result holds none of them: it
\* is the binary record of item i alone.
C15_DownloadDropsEarlierRecords ==
    pc = "returned" =>
        /\ Len(returnData) = i
        /\ \A j \in 0..(i - 1) :
              \E k \in RequestsOf(j) :
                  /\ requests[k].method = "GET"
                  /\ requests[k].path = "byId"
                  /\ requests[k].data # NoData
                  /\ returnData[j + 1] = requests[k].data.val[1]
        /\ Len(result) = 1
        /\ \A k \in 1..Len(result) :
              result[k].kind = "binary" /\ result[k].item = i

\* C15 witness: the download of the second item returned after the first
\* item's entity had been fetched and accumulated.
C15_Witness ==
    /\ pc = "returned"
    /\ i = 1
    /\ returnData = <<Rec(0, 0)>>
    /\ resource \in {"estimate", "invoice", "payment"}

====
